---- MODULE Spec2Model ----
(***************************************************************************)
(* A model of rjvm's Vm (vm/src/vm.rs): class resolution and               *)
(* initialization, method invocation and frames, object allocation with    *)
(* the collect-and-retry policy, string construction and the throwable     *)
(* stack-trace side table.                                                 *)
(*                                                                         *)
(* The Vm's methods call each other and are re-entered from running        *)
(* bytecode, so every method is an activation on a host stack (kstack)     *)
(* that advances from one nested call to the next.  The class manager, the *)
(* object allocator with its collector, the call stack and the bytecode    *)
(* interpreter live outside vm.rs; they are modelled from the              *)
(* specification's description of them.                                    *)
(***************************************************************************)
EXTENDS Integers, Sequences, FiniteSets, TLC

VARIABLES
    loaded,      \* class_manager: names of the loaded classes in load order; a class's id is its index
    heap,        \* object_allocator: the allocated objects in address order; an address is an index
    statics,     \* statics: class id -> reference to the class's static instance
    stacks,      \* call_stacks: the allocated call stacks, each a sequence of frames
    tcs,         \* throwable_call_stacks: identity hash -> stack trace
    kstack,      \* host activations of Vm methods, innermost last
    ret,         \* the result the innermost finished activation returned to its caller
    crashed,     \* the process panicked
    calls,       \* the calls the embedder has made
    steps,       \* the bytecode instructions executed
    clinitLog,   \* history: <clinit> invocations, begun and ended, in order
    pendOf,      \* history: class name -> the pending list the class manager returned it in
    gc           \* history: the collections and allocation attempts of the last step, and the roots collected from

vars == <<loaded, heap, statics, stacks, tcs, kstack, ret, crashed, calls, steps,
          clinitLog, pendOf, gc>>

----------------------------------------------------------------------------
(* Bounds of the model *)

\* capacity of the heap, in objects (max_memory)
HeapCapacity == 3
\* call stacks the embedder allocates
MaxStacks == 2
\* frames a call stack accepts before add_frame fails
MaxFrames == 2
\* bytecode instructions executed in all, returns and throws apart
MaxSteps == 4
\* calls the embedder makes
MaxCalls == 2

----------------------------------------------------------------------------
(* Values (value.rs): Int, Object(ref) and Null are the kinds the Vm handles *)

IntV(n) == [t |-> "int", v |-> n]
Null == [t |-> "null", v |-> 0]
Ref(a) == [t |-> "ref", v |-> a]
Void == [t |-> "void", v |-> 0]

IsRef(v) == v.t = "ref"

Range(s) == {s[i] : i \in DOMAIN s}

----------------------------------------------------------------------------
(* The class path of the test programs: A with a static initializer, B     *)
(* extends A with a static initializer, and the runtime's                  *)
(* java/lang/String, java/lang/Class and java/lang/StackTraceElement,      *)
(* which have none.  "X" is on no class path.                              *)

StringClass == "java/lang/String"

ClassClass == "java/lang/Class"

StackTraceElementClass == "java/lang/StackTraceElement"

ClassPath == {"A", "B", StringClass, ClassClass, StackTraceElementClass}

\* the class names the embedder and the test programs ask for by name
ClassNames == {"A", "B", StringClass, "X"}

\* every class name a resolution can be asked for
AllClassNames == ClassPath \cup ClassNames

SuperOf(name) == IF name = "B" THEN "A" ELSE ""

\* the kinds of the field slots of a class, inherited slots first
FieldKinds(name) ==
    CASE name = "A" -> <<"ref">>
      [] name = "B" -> <<"ref", "int">>
      [] name = StringClass -> <<"ref", "int", "int", "ref", "ref", "int", "int">>
      [] name = ClassClass -> <<"ref", "ref", "ref", "ref", "ref", "ref">>
      [] name = StackTraceElementClass -> <<"ref", "ref", "ref", "int">>
      [] OTHER -> <<>>

\* the methods a class declares: name -> native?
MethodsOf(name) ==
    CASE name = "A" -> {[name |-> "<clinit>", native |-> FALSE],
                        [name |-> "run", native |-> FALSE],
                        [name |-> "nat", native |-> TRUE],
                        [name |-> "unreg", native |-> TRUE]}
      [] name = "B" -> {[name |-> "<clinit>", native |-> FALSE]}
      [] OTHER -> {}

MethodNames == {"<clinit>", "run", "nat", "unreg"}

find_method(name, m) == {x \in MethodsOf(name) : x.name = m}

\* native_methods_registry: the callbacks registered by register_natives
Registered(name, m) == name = "A" /\ m = "nat"

----------------------------------------------------------------------------
(* Class manager (spec 4.C) *)

IsLoaded(ld, name) == \E i \in DOMAIN ld : ld[i] = name

ClassId(ld, name) == CHOOSE i \in DOMAIN ld : ld[i] = name

find_class_by_id(ld, id) == IF id \in DOMAIN ld THEN ld[id] ELSE ""

\* the classes a first resolution of name loads: unloaded ancestors first
RECURSIVE ToInitialize(_, _)
ToInitialize(ld, name) ==
    IF name = "" \/ IsLoaded(ld, name) THEN <<>>
    ELSE ToInitialize(ld, SuperOf(name)) \o <<name>>

\* ClassManager::get_or_resolve_class: an error, AlreadyLoaded, or NewClass
\* with the classes to initialize
cm_get_or_resolve_class(ld, name) ==
    IF name \notin ClassPath
    THEN [k |-> "error", loaded |-> ld, pend |-> <<>>]
    ELSE IF IsLoaded(ld, name)
    THEN [k |-> "AlreadyLoaded", loaded |-> ld, pend |-> <<>>]
    ELSE [k |-> "NewClass", loaded |-> ld \o ToInitialize(ld, name),
          pend |-> ToInitialize(ld, name)]

----------------------------------------------------------------------------
(* Objects and the allocator (spec 4.D, 4.E) *)

ZeroOf(kind) == IF kind = "ref" THEN Null ELSE IntV(0)

NewInstance(ld, name) ==
    [kind |-> "inst", cls |-> ClassId(ld, name), et |-> "",
     f |-> [i \in DOMAIN FieldKinds(name) |-> ZeroOf(FieldKinds(name)[i])],
     hash |-> 0]

NewArrayObject(et, length) ==
    [kind |-> "arr", cls |-> 0, et |-> et,
     f |-> [i \in 1..length |-> ZeroOf(et)],
     hash |-> 0]

\* ObjectAllocator::allocate / allocate_array: bump allocation, None when the
\* object does not fit
allocate(h, obj) ==
    IF Len(h) < HeapCapacity
    THEN [ok |-> TRUE, heap |-> Append(h, obj), ref |-> Len(h) + 1]
    ELSE [ok |-> FALSE, heap |-> h, ref |-> 0]

\* the references an object holds to allocated addresses
Children(h, a) == {v.v : v \in {w \in Range(h[a].f) : IsRef(w) /\ w.v \in 1..Len(h)}}

\* mark: everything reachable from the addresses in todo
RECURSIVE Mark(_, _, _)
Mark(h, todo, seen) ==
    IF todo = {} THEN seen
    ELSE LET a == CHOOSE x \in todo : TRUE
         IN Mark(h, (todo \cup Children(h, a)) \ (seen \cup {a}), seen \cup {a})

\* forwarding address of a live object: its rank among the live objects
Fwd(live, a) == Cardinality({b \in live : b <= a})

Forward(live, v) == IF IsRef(v) /\ v.v \in live THEN Ref(Fwd(live, v.v)) ELSE v

\* the address order of the live objects
RECURSIVE LiveSeq(_, _)
LiveSeq(live, n) ==
    IF n = 0 THEN <<>>
    ELSE IF n \in live THEN Append(LiveSeq(live, n - 1), n)
    ELSE LiveSeq(live, n - 1)

\* compact: live objects slide to the low end, internal references rewritten
Compact(h, live) ==
    LET order == LiveSeq(live, Len(h))
    IN [i \in 1..Len(order) |->
          [h[order[i]] EXCEPT !.f = [j \in DOMAIN h[order[i]].f |->
                                        Forward(live, h[order[i]].f[j])]]]

----------------------------------------------------------------------------
(* Roots and the collection *)

\* local slots of a frame (max_locals of the test methods)
LocalSlots == {1}

StaticLoc(c) == [k |-> "static", i |-> c, j |-> 0, l |-> 0]
SlotLoc(s, fr, x) == [k |-> "slot", i |-> s, j |-> fr, l |-> x]

\* CallStack::gc_roots: every reference-typed slot of every frame of the stack
gc_roots(stks, s) ==
    {loc \in {SlotLoc(s, fr, x) : fr \in DOMAIN stks[s], x \in LocalSlots} :
        IsRef(stks[s][loc.j].slots[loc.l])}

\* the value a root location holds
RootValue(w, loc) ==
    IF loc.k = "static" THEN w.statics[loc.i] ELSE w.stacks[loc.i][loc.j].slots[loc.l]

\* ObjectAllocator::do_garbage_collection: mark from the roots, compact, and
\* rewrite every root location handed in and every internal reference
collect(w, roots) ==
    LET from == {RootValue(w, loc).v : loc \in roots} \cap (1..Len(w.heap))
        live == Mark(w.heap, from, {})
    IN [heap |-> Compact(w.heap, live),
        statics |-> [c \in DOMAIN w.statics |->
                       IF StaticLoc(c) \in roots THEN Forward(live, w.statics[c])
                       ELSE w.statics[c]],
        stacks |-> [s \in DOMAIN w.stacks |-> [fr \in DOMAIN w.stacks[s] |->
                      [w.stacks[s][fr] EXCEPT !.slots = [x \in LocalSlots |->
                          IF SlotLoc(s, fr, x) \in roots
                          THEN Forward(live, w.stacks[s][fr].slots[x])
                          ELSE w.stacks[s][fr].slots[x]]]]],
        gc |-> [w.gc EXCEPT !.ran = @ + 1, !.roots = roots]]

\* roots gathered from the statics and the running invocation's call stack only
vm_roots_of_running_stack(w) ==
    {StaticLoc(c) : c \in DOMAIN w.statics}
      \cup UNION {gc_roots(w.stacks, s) : s \in {x \in DOMAIN w.stacks : x = kstack[Len(kstack)].st}}

\* roots gathered from the call stacks only
vm_roots_without_statics(w) ==
    UNION {gc_roots(w.stacks, s) : s \in DOMAIN w.stacks}

\* the roots Vm::do_garbage_collection gathers: the statics and the gc_roots of
\* every allocated call stack
vm_roots(w) ==
    {StaticLoc(c) : c \in DOMAIN w.statics}
      \cup UNION {gc_roots(w.stacks, s) : s \in DOMAIN w.stacks}

\* Vm::do_garbage_collection
do_garbage_collection(w) == collect(w, vm_roots(w))

\* the outcome of an allocation request of the Vm
AllocOutcome(w, ref, panic) == [w |-> w, ref |-> ref, panic |-> panic]

\* one attempt of the allocator, counted in the step's history
attempt(w, obj) ==
    LET r == allocate(w.heap, obj)
    IN [ok |-> r.ok, ref |-> r.ref, w |-> [w EXCEPT !.heap = r.heap, !.gc.tries = @ + 1]]

\* an allocation that collects before it has tried
alloc_collect_first(w, obj) ==
    LET first == attempt(do_garbage_collection(w), obj)
    IN AllocOutcome(first.w, first.ref, ~first.ok)

\* the body shared by Vm::new_object_of_class and Vm::new_array: allocate;
\* when the object does not fit, collect and allocate again; a second
\* failure is the expect() that panics
alloc_or_collect(w, obj) ==
    LET first == attempt(w, obj)
    IN IF first.ok
       THEN AllocOutcome(first.w, first.ref, FALSE)
       ELSE LET second == attempt(do_garbage_collection(first.w), obj)
            IN AllocOutcome(second.w, second.ref, ~second.ok)

\* Vm::new_object_of_class
new_object_of_class(w, ld, name) == alloc_or_collect(w, NewInstance(ld, name))

\* Vm::new_array
new_array(w, et, length) == alloc_or_collect(w, NewArrayObject(et, length))

\* a step that runs no collection
NoGc == [ran |-> 0, roots |-> {}, tries |-> 0]

\* the part of the state an allocation reads and writes
World == [heap |-> heap, statics |-> statics, stacks |-> stacks, gc |-> NoGc]

----------------------------------------------------------------------------
(* Host strings are sequences of Unicode code points; encode_utf16 turns a *)
(* code point above the basic plane into a surrogate pair.                 *)

RECURSIVE encode_utf16(_)
encode_utf16(str) ==
    IF str = <<>> THEN <<>>
    ELSE LET c == Head(str)
         IN (IF c < 65536 THEN <<c>>
             ELSE <<55296 + ((c - 65536) \div 1024), 56320 + ((c - 65536) % 1024)>>)
            \o encode_utf16(Tail(str))

\* the strings the embedder and the bytecode constants supply: the empty
\* string, "A", and one code point outside the basic plane
Strings == {<<>>, <<65>>, <<66000>>}

----------------------------------------------------------------------------
(* Results (MethodCallResult, MethodCallFailed) and activations *)

\* a VmError: its variant and, for MethodNotFoundException, the class and
\* method names it carries
VmError(name, cls, m) == [name |-> name, cls |-> cls, m |-> m]

NoError == VmError("", "", "")

RNone == [k |-> "none", v |-> Void, e |-> NoError]
ROk(v) == [k |-> "ok", v |-> v, e |-> NoError]
\* MethodCallFailed::ExceptionThrown(object)
RThrown(v) == [k |-> "thrown", v |-> v, e |-> NoError]
\* MethodCallFailed::InternalError(VmError)
RInternal(e) == [k |-> "internal", v |-> Void, e |-> VmError(e, "", "")]

ClassV(id) == [t |-> "class", v |-> id]

\* a resolved ClassAndMethod
RMethod(id, m) == [k |-> "ok", v |-> ClassV(id), e |-> VmError("", "", m)]

Failed(r) == r.k \in {"thrown", "internal"}

\* a StackTraceElement of the host: the optional source file and line number
\* are <<>> for None and <<x>> for Some(x)
StackTraceElement(class_name, method_name, source_file, line_number) ==
    [class_name |-> class_name, method_name |-> method_name,
     source_file |-> source_file, line_number |-> line_number]

NoElement == StackTraceElement(<<>>, <<>>, <<>>, <<>>)

Act(fn, st, cls, m, str) ==
    [fn |-> fn, pc |-> "start", st |-> st, cls |-> cls, m |-> m, str |-> str,
     pend |-> <<>>, i |-> 1, a |-> Null, b |-> Null, c |-> Null, el |-> NoElement,
     depth |-> 0]

Top == kstack[Len(kstack)]

Running(fn, pc) ==
    /\ ~crashed
    /\ kstack # <<>>
    /\ Top.fn = fn
    /\ Top.pc = pc

Popped == SubSeq(kstack, 1, Len(kstack) - 1)

WithTop(act) == [kstack EXCEPT ![Len(kstack)] = act]

\* the running activation calls callee and waits at pc
Call(pc, callee) == Append(WithTop([Top EXCEPT !.pc = pc]), callee)

\* the running activation returns r to its caller
Return(r) ==
    /\ kstack' = Popped
    /\ ret' = r

\* the expect() of a failed second attempt panics: the process ends in the
\* state the collection left
Panic(o) ==
    /\ crashed' = TRUE
    /\ heap' = o.w.heap
    /\ statics' = o.w.statics
    /\ stacks' = o.w.stacks
    /\ gc' = o.w.gc
    /\ UNCHANGED <<loaded, tcs, kstack, ret, calls, steps, clinitLog, pendOf>>

----------------------------------------------------------------------------
(* Vm::get_or_resolve_class *)

\* the classes to initialize visited from the end of the list
class_to_init_reversed(pend, i) == pend[Len(pend) + 1 - i]

\* an already loaded class handed to the loop as well
classes_to_init_always(r, name) == IF r.k = "NewClass" THEN r.pend ELSE <<name>>

\* line 111: the classes to initialize are visited in the order of the list
class_to_init(pend, i) == pend[i]

\* line 110: only a NewClass result carries classes to initialize
classes_to_init(r, name) == IF r.k = "NewClass" THEN r.pend ELSE <<>>

\* line 109: the class manager resolves the name, and its error is returned;
\* the loop of lines 110-114 starts on the classes to initialize
GetOrResolveClassStart ==
    /\ Running("get_or_resolve_class", "start")
    /\ LET r == cm_get_or_resolve_class(loaded, Top.cls)
       IN /\ loaded' = r.loaded
          /\ IF r.k = "error"
             THEN Return(RInternal("ClassNotFound"))
             ELSE /\ kstack' = WithTop([Top EXCEPT !.pc = "loop", !.i = 1,
                                                   !.pend = classes_to_init(r, Top.cls)])
                  /\ ret' = RNone
          /\ pendOf' = [c \in AllClassNames |-> IF c \in Range(r.pend) THEN r.pend ELSE pendOf[c]]
    /\ UNCHANGED <<heap, statics, stacks, tcs, crashed, calls, steps, clinitLog>>
    /\ gc' = NoGc

\* a failure of init_class that the loop ignores
init_failed_ignored(r) == FALSE

\* line 112: the ? after init_class returns its failure at once
init_failed(r) == Failed(r)

\* lines 111-115: the next class is initialized; after the last, the class is
\* returned
GetOrResolveClassLoop ==
    /\ Running("get_or_resolve_class", "loop")
    /\ IF init_failed(ret)
       THEN Return(ret)
       ELSE IF Top.i > Len(Top.pend)
       THEN Return(ROk(ClassV(ClassId(loaded, Top.cls))))
       ELSE /\ kstack' = Append(WithTop([Top EXCEPT !.i = @ + 1]),
                                Act("init_class", Top.st, class_to_init(Top.pend, Top.i), "", <<>>))
            /\ ret' = RNone
    /\ UNCHANGED <<loaded, heap, statics, stacks, tcs, crashed, calls, steps, clinitLog, pendOf>>
    /\ gc' = NoGc

----------------------------------------------------------------------------
(* Vm::init_class *)

\* an insertion that loses the other entries of the map
Insert_alone(f, key, val) == [x \in {key} |-> val]

Insert(f, key, val) == [x \in DOMAIN f \cup {key} |-> IF x = key THEN val ELSE f[x]]

\* a registration of the static instance that is left out
register_static_skipped(sts, id, ref) == sts

\* line 125: the static instance is registered under the class id
register_static(sts, id, ref) == Insert(sts, id, ref)

\* Vm::get_static_instance: the entry of the class id, if any
get_static_instance(sts, id) == IF id \in DOMAIN sts THEN sts[id] ELSE Null

InitClassStart ==
    /\ Running("init_class", "start")
    /\ LET o == new_object_of_class(World, loaded, Top.cls)
       IN IF o.panic
          THEN Panic(o)
          ELSE /\ heap' = o.w.heap
               /\ statics' = register_static(o.w.statics, ClassId(loaded, Top.cls), Ref(o.ref))
               /\ stacks' = o.w.stacks
               /\ gc' = o.w.gc
               /\ IF find_method(Top.cls, "<clinit>") # {}
                  THEN /\ kstack' = Call("wait", Act("invoke", Top.st, Top.cls, "<clinit>", <<>>))
                       /\ ret' = RNone
                       /\ clinitLog' = Append(clinitLog, [cls |-> Top.cls, ev |-> "begin"])
                  ELSE /\ Return(ROk(Void))
                       /\ UNCHANGED clinitLog
               /\ UNCHANGED <<loaded, tcs, crashed, calls, steps, pendOf>>

InitClassWait ==
    /\ Running("init_class", "wait")
    /\ Return(IF Failed(ret) THEN ret ELSE ROk(Void))
    /\ clinitLog' = Append(clinitLog, [cls |-> Top.cls,
                                       ev |-> IF Failed(ret) THEN "fail" ELSE "end"])
    /\ UNCHANGED <<loaded, heap, statics, stacks, tcs, crashed, calls, steps, pendOf>>
    /\ gc' = NoGc

----------------------------------------------------------------------------
(* Vm::invoke, Vm::invoke_native and the frame's execution *)

NewFrame(cls, m) ==
    [cls |-> cls, m |-> m, slots |-> [x \in LocalSlots |-> Null]]

\* CallStack::add_frame: the frame goes on top, or the stack is full
add_frame(stk, frame) ==
    IF Len(stk) >= MaxFrames
    THEN [ok |-> FALSE, stack |-> stk]
    ELSE [ok |-> TRUE, stack |-> Append(stk, frame)]

\* CallStack::pop_frame
pop_frame(stk) == SubSeq(stk, 1, Len(stk) - 1)

IsNative(cls, m) == \E x \in find_method(cls, m) : x.native

\* a dispatch that treats no method as native
is_native_never(cls, m) == FALSE

\* line 179: class_and_method.method.is_native()
is_native(cls, m) == IsNative(cls, m)

\* lines 179-183: a native method goes to invoke_native, which runs the
\* registered callback or fails; any other method gets a frame, or the
\* failure of add_frame
InvokeStart ==
    /\ Running("invoke", "start")
    /\ IF is_native(Top.cls, Top.m)
       THEN /\ IF Registered(Top.cls, Top.m)
               THEN kstack' = WithTop([Top EXCEPT !.fn = "native", !.pc = "run"])
                    /\ ret' = RNone
               ELSE Return(RInternal("NotImplemented"))
            /\ UNCHANGED stacks
       ELSE LET r == add_frame(stacks[Top.st], NewFrame(Top.cls, Top.m))
            IN IF r.ok
               THEN /\ stacks' = [stacks EXCEPT ![Top.st] = r.stack]
                    /\ kstack' = WithTop([Top EXCEPT !.pc = "exec",
                                                     !.depth = Len(stacks[Top.st])])
                    /\ ret' = RNone
               ELSE /\ Return(RInternal("StackOverflow"))
                    /\ UNCHANGED stacks
    /\ UNCHANGED <<loaded, heap, statics, tcs, crashed, calls, steps, clinitLog, pendOf>>
    /\ gc' = NoGc

\* an end of execution that pops the frame only on a normal return
InvokeEnd_pop_on_ok_only(r) ==
    /\ stacks' = IF r.k \in {"thrown", "internal"} THEN stacks
                 ELSE [stacks EXCEPT ![kstack[Len(kstack)].st] =
                          SubSeq(@, 1, Len(@) - 1)]
    /\ kstack' = SubSeq(kstack, 1, Len(kstack) - 1)
    /\ ret' = r

\* lines 184-188: execution ended with result r; the frame is popped and r returned
InvokeEnd(r) ==
    /\ stacks' = [stacks EXCEPT ![Top.st] = pop_frame(stacks[Top.st])]
    /\ Return(r)

Executing == Running("invoke", "exec")

\* the frame executes one more instruction
Fetch ==
    /\ Executing
    /\ steps < MaxSteps
    /\ steps' = steps + 1

FrameIx == Len(stacks[Top.st])

Slot == stacks[Top.st][FrameIx].slots[1]

SetSlot(stks, v) == [stks EXCEPT ![Top.st][FrameIx].slots[1] = v]

\* return: the method ends normally
ExecReturn ==
    /\ Executing
    /\ InvokeEnd(ROk(Void))
    /\ UNCHANGED <<loaded, heap, statics, tcs, crashed, calls, steps, clinitLog, pendOf>>
    /\ gc' = NoGc

\* the stack trace captured at a throw: the frames, innermost first
StackTrace(stk) == [i \in 1..Len(stk) |-> <<stk[Len(stk) + 1 - i].cls, stk[Len(stk) + 1 - i].m>>]

\* AbstractObject::identity_hash_code: lazy, taken from the object's address
\* at its first use and kept in the header from then on
identity_hash_code(h, ref) == IF h[ref.v].hash = 0 THEN ref.v ELSE h[ref.v].hash

\* Vm::associate_stack_trace_with_throwable
associate_stack_trace_with_throwable(table, hash, trace) == Insert(table, hash, trace)

\* Vm::get_stack_trace_associated_with_throwable: the table's entry under the
\* throwable's identity hash; <<>> is None, <<trace>> is Some(trace)
get_stack_trace_associated_with_throwable(table, h, throwable) ==
    IF identity_hash_code(h, throwable) \in DOMAIN table
    THEN <<table[identity_hash_code(h, throwable)]>>
    ELSE <<>>

\* athrow with no handler in the frame: the trace is associated with the
\* throwable's identity hash (assigned at its first use) and the frame unwinds
ExecThrow ==
    /\ Executing
    /\ IsRef(Slot)
    /\ heap' = [heap EXCEPT ![Slot.v].hash = identity_hash_code(heap, Slot)]
    /\ tcs' = associate_stack_trace_with_throwable(tcs, identity_hash_code(heap, Slot),
                                                   StackTrace(stacks[Top.st]))
    /\ InvokeEnd(RThrown(Slot))
    /\ UNCHANGED <<loaded, statics, crashed, calls, steps, clinitLog, pendOf>>
    /\ gc' = NoGc

\* new: Vm::new_object
ExecNew ==
    /\ Fetch
    /\ \E cls \in {"A", "B"} :
         kstack' = Call("wait_val", Act("new_object", Top.st, cls, "", <<>>))
    /\ ret' = RNone
    /\ UNCHANGED <<loaded, heap, statics, stacks, tcs, crashed, calls, clinitLog, pendOf>>
    /\ gc' = NoGc

\* ldc of a string constant: Vm::new_java_lang_string_object
ExecLdc ==
    /\ Fetch
    /\ kstack' = Call("wait_val", Act("new_java_lang_string_object", Top.st, "", "", <<65>>))
    /\ ret' = RNone
    /\ UNCHANGED <<loaded, heap, statics, stacks, tcs, crashed, calls, clinitLog, pendOf>>
    /\ gc' = NoGc

\* invokestatic of the native A.nat: Vm::resolve_class_method, then Vm::invoke
ExecInvoke ==
    /\ Fetch
    /\ kstack' = Call("wait_cm", Act("resolve_class_method", Top.st, "A", "nat", <<>>))
    /\ ret' = RNone
    /\ UNCHANGED <<loaded, heap, statics, stacks, tcs, crashed, calls, clinitLog, pendOf>>
    /\ gc' = NoGc

\* putstatic of the local into the first field of the class's static instance
ExecPutStatic ==
    /\ Fetch
    /\ IsLoaded(loaded, stacks[Top.st][FrameIx].cls)
    /\ LET cid == ClassId(loaded, stacks[Top.st][FrameIx].cls)
       IN /\ cid \in DOMAIN statics
          /\ heap[statics[cid].v].f[1] # Slot
          /\ heap' = [heap EXCEPT ![statics[cid].v].f[1] = Slot]
    /\ UNCHANGED <<loaded, statics, stacks, tcs, kstack, ret, crashed, calls, clinitLog, pendOf>>
    /\ gc' = NoGc

\* the local is overwritten with null
ExecPop ==
    /\ Fetch
    /\ Slot # Null
    /\ stacks' = SetSlot(stacks, Null)
    /\ UNCHANGED <<loaded, heap, statics, tcs, kstack, ret, crashed, calls, clinitLog, pendOf>>
    /\ gc' = NoGc

\* a nested call returned to the bytecode: a failure unwinds the frame, a
\* value goes to the local, a resolved method is invoked
ExecResume ==
    /\ ~crashed
    /\ kstack # <<>>
    /\ Top.fn = "invoke"
    /\ Top.pc \in {"wait_val", "wait_cm", "wait_ret"}
    /\ IF Failed(ret)
       THEN InvokeEnd(ret)
       ELSE CASE Top.pc = "wait_val" ->
                   /\ stacks' = SetSlot(stacks, ret.v)
                   /\ kstack' = WithTop([Top EXCEPT !.pc = "exec"])
                   /\ ret' = RNone
              [] Top.pc = "wait_cm" ->
                   /\ kstack' = Call("wait_ret", Act("invoke", Top.st,
                                                     find_class_by_id(loaded, ret.v.v), ret.e.m, <<>>))
                   /\ ret' = RNone
                   /\ UNCHANGED stacks
              [] OTHER ->
                   /\ kstack' = WithTop([Top EXCEPT !.pc = "exec"])
                   /\ ret' = RNone
                   /\ UNCHANGED stacks
    /\ UNCHANGED <<loaded, heap, statics, tcs, crashed, calls, steps, clinitLog, pendOf>>
    /\ gc' = NoGc

\* a handler of the frame catches the throwable a nested call threw
ExecCatch ==
    /\ ~crashed
    /\ kstack # <<>>
    /\ Top.fn = "invoke"
    /\ Top.pc \in {"wait_val", "wait_cm", "wait_ret"}
    /\ ret.k = "thrown"
    /\ stacks' = SetSlot(stacks, ret.v)
    /\ kstack' = WithTop([Top EXCEPT !.pc = "exec"])
    /\ ret' = RNone
    /\ UNCHANGED <<loaded, heap, statics, tcs, crashed, calls, steps, clinitLog, pendOf>>
    /\ gc' = NoGc

\* the registered callback of A.nat returns
NativeReturn ==
    /\ (Running("native", "run") \/ Running("native", "wait"))
    /\ Return(IF Top.pc = "wait" /\ Failed(ret) THEN ret ELSE ROk(Void))
    /\ UNCHANGED <<loaded, heap, statics, stacks, tcs, crashed, calls, steps, clinitLog, pendOf>>
    /\ gc' = NoGc

\* the registered callback of A.nat invokes A.run on a call stack of the Vm
NativeInvoke ==
    /\ Running("native", "run")
    /\ \E s \in DOMAIN stacks :
         kstack' = Call("wait", Act("invoke", s, "A", "run", <<>>))
    /\ ret' = RNone
    /\ UNCHANGED <<loaded, heap, statics, stacks, tcs, crashed, calls, steps, clinitLog, pendOf>>
    /\ gc' = NoGc

----------------------------------------------------------------------------
(* Vm::new_object, Vm::new_java_lang_string_object, Vm::resolve_class_method *)

\* line 231: the class is resolved (and its pending classes initialized) first
NewObjectStart ==
    /\ Running("new_object", "start")
    /\ kstack' = Call("wait", Act("get_or_resolve_class", Top.st, Top.cls, "", <<>>))
    /\ ret' = RNone
    /\ UNCHANGED <<loaded, heap, statics, stacks, tcs, crashed, calls, steps, clinitLog, pendOf>>
    /\ gc' = NoGc

\* lines 231-232: a failed resolution is returned, else the object is allocated
NewObjectWait ==
    /\ Running("new_object", "wait")
    /\ IF Failed(ret)
       THEN /\ Return(ret)
            /\ UNCHANGED <<loaded, heap, statics, stacks, tcs, crashed, calls, steps, clinitLog, pendOf>>
            /\ gc' = NoGc
       ELSE LET o == new_object_of_class(World, loaded, Top.cls)
            IN IF o.panic
               THEN Panic(o)
               ELSE /\ heap' = o.w.heap
                    /\ statics' = o.w.statics
                    /\ stacks' = o.w.stacks
                    /\ gc' = o.w.gc
                    /\ Return(ROk(Ref(o.ref)))
                    /\ UNCHANGED <<loaded, tcs, crashed, calls, steps, clinitLog, pendOf>>

\* AbstractObject::set_field / set_element through a reference
set_field(h, ref, index, val) == [h EXCEPT ![ref.v].f[index + 1] = val]

\* lines 253-262: the char array is allocated and filled with the code units;
\* line 272: the String object is requested while the array is held in a local
NewStringStart ==
    /\ Running("new_java_lang_string_object", "start")
    /\ LET units == encode_utf16(Top.str)
           o == new_array(World, "char", Len(units))
       IN IF o.panic
          THEN Panic(o)
          ELSE /\ heap' = [o.w.heap EXCEPT ![o.ref].f = [i \in 1..Len(units) |-> IntV(units[i])]]
               /\ statics' = o.w.statics
               /\ stacks' = o.w.stacks
               /\ gc' = o.w.gc
               /\ kstack' = Append(WithTop([Top EXCEPT !.pc = "wait", !.a = Ref(o.ref)]),
                                   Act("new_object", Top.st, StringClass, "", <<>>))
               /\ ret' = RNone
               /\ UNCHANGED <<loaded, tcs, crashed, calls, steps, clinitLog, pendOf>>

\* lines 272-276: a failed request is returned; else slot 0 gets the array held
\* in the local, slots 1 and 6 get zero
NewStringWait ==
    /\ Running("new_java_lang_string_object", "wait")
    /\ IF Failed(ret)
       THEN Return(ret) /\ UNCHANGED heap
       ELSE /\ heap' = set_field(set_field(set_field(heap, ret.v, 0, Top.a), ret.v, 1, IntV(0)),
                                 ret.v, 6, IntV(0))
            /\ Return(ROk(ret.v))
    /\ UNCHANGED <<loaded, statics, stacks, tcs, crashed, calls, steps, clinitLog, pendOf>>
    /\ gc' = NoGc

ResolveClassMethodStart ==
    /\ Running("resolve_class_method", "start")
    /\ kstack' = Call("wait", Act("get_or_resolve_class", Top.st, Top.cls, "", <<>>))
    /\ ret' = RNone
    /\ UNCHANGED <<loaded, heap, statics, stacks, tcs, crashed, calls, steps, clinitLog, pendOf>>
    /\ gc' = NoGc

\* a missing method reported as a thrown object
method_not_found_thrown(cls, m) == RThrown(Null)

\* lines 162-168: the failure for a class that has no such method
method_not_found(cls, m) ==
    [k |-> "internal", v |-> Void, e |-> VmError("MethodNotFoundException", cls, m)]

\* lines 158-169: and_then on the resolved class: the method or
\* MethodNotFoundException
ResolveClassMethodWait ==
    /\ Running("resolve_class_method", "wait")
    /\ Return(IF Failed(ret) THEN ret
              ELSE IF find_method(Top.cls, Top.m) # {}
              THEN RMethod(ret.v.v, Top.m)
              ELSE method_not_found(Top.cls, Top.m))
    /\ UNCHANGED <<loaded, heap, statics, stacks, tcs, crashed, calls, steps, clinitLog, pendOf>>
    /\ gc' = NoGc

----------------------------------------------------------------------------
(* Vm::extract_str_from_java_lang_string *)

\* a host string as a result value
StrV(str) == [t |-> "str", v |-> str]

\* a code unit that starts, or ends, a surrogate pair
IsHighSurrogate(u) == u \in 55296..56319
IsLowSurrogate(u) == u \in 56320..57343

\* String::from_utf16: the code points of the code units; an unpaired
\* surrogate decodes to -1, which makes the decoding fail
RECURSIVE decode_utf16(_)
decode_utf16(units) ==
    IF units = <<>> THEN <<>>
    ELSE IF IsHighSurrogate(units[1])
    THEN IF Len(units) >= 2 /\ IsLowSurrogate(units[2])
         THEN <<65536 + (units[1] - 55296) * 1024 + (units[2] - 56320)>>
                \o decode_utf16(Tail(Tail(units)))
         ELSE <<-1>> \o decode_utf16(Tail(units))
    ELSE IF IsLowSurrogate(units[1]) THEN <<-1>> \o decode_utf16(Tail(units))
    ELSE <<units[1]>> \o decode_utf16(Tail(units))

\* a failed validation reported as an empty string
validation_failed_empty == ROk(StrV(<<>>))

\* line 93: Err(VmError::ValidationException)
validation_failed == RInternal("ValidationException")

\* string_from_char_array: the results of decoding the array a reference
\* designates; a reference to no allocated object is read as whatever the
\* memory holds
string_from_char_array(h, ref) ==
    IF ref.v \notin DOMAIN h
    THEN {RInternal("ValidationException")} \cup {ROk(StrV(x)) : x \in Strings}
    ELSE IF h[ref.v].kind = "arr" /\ h[ref.v].et = "char"
              /\ \A i \in DOMAIN h[ref.v].f : h[ref.v].f[i].t = "int"
    THEN LET str == decode_utf16([i \in DOMAIN h[ref.v].f |-> h[ref.v].f[i].v])
         IN IF -1 \in Range(str) THEN {RInternal("ValidationException")}
            ELSE {ROk(StrV(str))}
    ELSE {RInternal("ValidationException")}

\* Vm::get_class_by_id: the class name, or "" for ValidationException
get_class_by_id(ld, id) == find_class_by_id(ld, id)

\* lines 85-93: the results of extracting the string of the object at
\* reference obj
extract_str_from_java_lang_string(h, ld, obj) ==
    LET class == get_class_by_id(ld, h[obj.v].cls)
    IN IF class = "" THEN {RInternal("ValidationException")}
       ELSE IF class = StringClass /\ IsRef(h[obj.v].f[1])
       THEN string_from_char_array(h, h[obj.v].f[1])
       ELSE {validation_failed}

ExtractStr ==
    /\ Running("extract_str_from_java_lang_string", "start")
    /\ \E r \in extract_str_from_java_lang_string(heap, loaded, Top.a) : Return(r)
    /\ UNCHANGED <<loaded, heap, statics, stacks, tcs, crashed, calls, steps, clinitLog, pendOf>>
    /\ gc' = NoGc

----------------------------------------------------------------------------
(* Vm::new_java_lang_class_object, Vm::new_java_lang_stack_trace_element_object *)

\* the bits of a value read at a slot of a kind
Reinterpret(kind, val) ==
    IF kind = "ref" THEN (IF val.v = 0 THEN Null ELSE Ref(val.v)) ELSE IntV(val.v)

\* the kind of slot index + 1 of the object at address a
SlotKind(h, a, index) == IF h[a].f[index + 1].t = "int" THEN "int" ELSE "ref"

\* set_field through a reference held in a local across an allocation: the
\* write lands in the slot of whatever object the address designates now;
\* outside every allocated slot the behaviour is undefined: nothing the
\* model tracks changes, or the process dies
set_field_of_local(h, ref, index, val) ==
    IF ref.v \in DOMAIN h /\ index + 1 \in DOMAIN h[ref.v].f
    THEN {[heap |-> set_field(h, ref, index, Reinterpret(SlotKind(h, ref.v, index), val)),
           crash |-> FALSE]}
    ELSE {[heap |-> h, crash |-> FALSE], [heap |-> h, crash |-> TRUE]}

\* line 284: the Class object is requested first
NewClassObjectStart ==
    /\ Running("new_java_lang_class_object", "start")
    /\ kstack' = Call("wait_obj", Act("new_object", Top.st, ClassClass, "", <<>>))
    /\ ret' = RNone
    /\ UNCHANGED <<loaded, heap, statics, stacks, tcs, crashed, calls, steps, clinitLog, pendOf>>
    /\ gc' = NoGc

\* lines 284-286: a failed request is returned; else the String of the class
\* name is requested while the Class object is held in a local
NewClassObjectWaitObj ==
    /\ Running("new_java_lang_class_object", "wait_obj")
    /\ IF Failed(ret)
       THEN Return(ret)
       ELSE /\ kstack' = Append(WithTop([Top EXCEPT !.pc = "wait_str", !.a = ret.v]),
                                Act("new_java_lang_string_object", Top.st, "", "", Top.str))
            /\ ret' = RNone
    /\ UNCHANGED <<loaded, heap, statics, stacks, tcs, crashed, calls, steps, clinitLog, pendOf>>
    /\ gc' = NoGc

\* lines 286-288: a failed request is returned; else slot 5 of the object the
\* local designates gets the String, and the local is returned
NewClassObjectWaitStr ==
    /\ Running("new_java_lang_class_object", "wait_str")
    /\ IF Failed(ret)
       THEN Return(ret) /\ UNCHANGED <<heap, crashed>>
       ELSE \E o \in set_field_of_local(heap, Top.a, 5, ret.v) :
              IF o.crash
              THEN crashed' = TRUE /\ UNCHANGED <<heap, kstack, ret>>
              ELSE heap' = o.heap /\ crashed' = crashed /\ Return(ROk(Top.a))
    /\ UNCHANGED <<loaded, statics, stacks, tcs, calls, steps, clinitLog, pendOf>>
    /\ gc' = NoGc

\* lines 296-298: the String of the class name is requested first
NewStackTraceElementStart ==
    /\ Running("new_java_lang_stack_trace_element_object", "start")
    /\ kstack' = Call("wait_class", Act("new_java_lang_string_object", Top.st, "", "",
                                        Top.el.class_name))
    /\ ret' = RNone
    /\ UNCHANGED <<loaded, heap, statics, stacks, tcs, crashed, calls, steps, clinitLog, pendOf>>
    /\ gc' = NoGc

\* the request of the StackTraceElement object, lines 313-314, with the
\* Strings held in the locals class_name, method_name and file_name
RequestElement(class_name, method_name, file_name) ==
    Append(WithTop([Top EXCEPT !.pc = "wait_obj", !.a = class_name, !.b = method_name,
                               !.c = file_name]),
           Act("new_object", Top.st, StackTraceElementClass, "", <<>>))

\* lines 296-301: a failed request is returned; else the String of the
\* method name is requested while class_name is held in a local
NewStackTraceElementWaitClass ==
    /\ Running("new_java_lang_stack_trace_element_object", "wait_class")
    /\ IF Failed(ret)
       THEN Return(ret)
       ELSE /\ kstack' = Append(WithTop([Top EXCEPT !.pc = "wait_method", !.a = ret.v]),
                                Act("new_java_lang_string_object", Top.st, "", "",
                                    Top.el.method_name))
            /\ ret' = RNone
    /\ UNCHANGED <<loaded, heap, statics, stacks, tcs, crashed, calls, steps, clinitLog, pendOf>>
    /\ gc' = NoGc

\* lines 299-307: a failed request is returned; else the String of the source
\* file is requested when there is one, and the object itself when not
NewStackTraceElementWaitMethod ==
    /\ Running("new_java_lang_stack_trace_element_object", "wait_method")
    /\ IF Failed(ret)
       THEN Return(ret)
       ELSE /\ ret' = RNone
            /\ IF Top.el.source_file # <<>>
               THEN kstack' = Append(WithTop([Top EXCEPT !.pc = "wait_file", !.b = ret.v]),
                                     Act("new_java_lang_string_object", Top.st, "", "",
                                         Top.el.source_file[1]))
               ELSE kstack' = RequestElement(Top.a, ret.v, Null)
    /\ UNCHANGED <<loaded, heap, statics, stacks, tcs, crashed, calls, steps, clinitLog, pendOf>>
    /\ gc' = NoGc

\* lines 302-314: a failed request is returned; else the object is requested
NewStackTraceElementWaitFile ==
    /\ Running("new_java_lang_stack_trace_element_object", "wait_file")
    /\ IF Failed(ret)
       THEN Return(ret)
       ELSE /\ ret' = RNone
            /\ kstack' = RequestElement(Top.a, Top.b, ret.v)
    /\ UNCHANGED <<loaded, heap, statics, stacks, tcs, crashed, calls, steps, clinitLog, pendOf>>
    /\ gc' = NoGc

\* line 308-309: the line number, 0 when there is none
line_number_or_zero(el) == IF el.line_number = <<>> THEN IntV(0) ELSE IntV(el.line_number[1])

\* lines 313-323: a failed request is returned; else slots 0 to 3 of the new
\* object get the values the locals hold and the line number
NewStackTraceElementWaitObj ==
    /\ Running("new_java_lang_stack_trace_element_object", "wait_obj")
    /\ IF Failed(ret)
       THEN Return(ret) /\ UNCHANGED heap
       ELSE /\ heap' = set_field(set_field(set_field(set_field(heap, ret.v, 0, Top.a),
                                                     ret.v, 1, Top.b),
                                           ret.v, 2, Top.c),
                                 ret.v, 3, line_number_or_zero(Top.el))
            /\ Return(ROk(ret.v))
    /\ UNCHANGED <<loaded, statics, stacks, tcs, crashed, calls, steps, clinitLog, pendOf>>
    /\ gc' = NoGc

----------------------------------------------------------------------------
(* Vm::clone_array *)

\* the element values a read of memory that holds no allocated object can
\* produce
StaleValues(et) == {ZeroOf(et), IntV(65)}

\* AbstractObject::len through a reference: the length of the array the
\* address designates now; an address that holds no array is read as whatever
\* the memory holds
array_len(h, ref) ==
    IF ref.v \in DOMAIN h /\ h[ref.v].kind = "arr"
    THEN {Len(h[ref.v].f)}
    ELSE {0, 1, 2}

\* array_copy(src, 0, dest, 0, length): the outcomes of copying the first
\* length elements of the object src designates into dest; both must be arrays
\* of one element type holding length elements at least; a src that
\* designates no allocated object is read as whatever the memory holds
array_copy(h, src, dest, length) ==
    IF Len(h[dest.v].f) < length
    THEN {[heap |-> h, r |-> RInternal("ValidationException")]}
    ELSE IF src.v \notin DOMAIN h
    THEN {[heap |-> h, r |-> RInternal("ValidationException")]}
           \cup {[heap |-> [h EXCEPT ![dest.v].f = [i \in DOMAIN h[dest.v].f |->
                                       IF i <= length THEN vals[i] ELSE h[dest.v].f[i]]],
                  r |-> ROk(Void)] :
                   vals \in [1..length -> StaleValues(h[dest.v].et)]}
    ELSE IF /\ h[src.v].kind = "arr"
            /\ h[src.v].et = h[dest.v].et
            /\ Len(h[src.v].f) >= length
    THEN {[heap |-> [h EXCEPT ![dest.v].f = [i \in DOMAIN h[dest.v].f |->
                                IF i <= length THEN h[src.v].f[i] ELSE h[dest.v].f[i]]],
           r |-> ROk(Void)]}
    ELSE {[heap |-> h, r |-> RInternal("ValidationException")]}

\* lines 345-355: the outcomes of clone_array(value): a value that is no
\* reference to an array is refused; else the copy is requested with the
\* source's element type and length (line 349), and line 350 reads the
\* source's length again and copies, both through the reference the local
\* holds, which no collection rewrites
clone_array(w, value) ==
    IF ~(IsRef(value) /\ w.heap[value.v].kind = "arr")
    THEN {[o |-> AllocOutcome(w, 0, FALSE), r |-> RInternal("ValidationException")]}
    ELSE LET o == new_array(w, w.heap[value.v].et, Len(w.heap[value.v].f))
         IN IF o.panic
            THEN {[o |-> o, r |-> RNone]}
            ELSE UNION {{[o |-> [o EXCEPT !.w.heap = c.heap],
                          r |-> IF Failed(c.r) THEN c.r ELSE ROk(Ref(o.ref))] :
                           c \in array_copy(o.w.heap, value, Ref(o.ref), length)} :
                        length \in array_len(o.w.heap, value)}

CloneArray ==
    /\ Running("clone_array", "start")
    /\ \E c \in clone_array(World, Top.a) :
         IF c.o.panic
         THEN Panic(c.o)
         ELSE /\ heap' = c.o.w.heap
              /\ statics' = c.o.w.statics
              /\ stacks' = c.o.w.stacks
              /\ gc' = c.o.w.gc
              /\ Return(c.r)
              /\ UNCHANGED <<loaded, tcs, crashed, calls, steps, clinitLog, pendOf>>

----------------------------------------------------------------------------
(* The embedder: it allocates call stacks and, while no call is running,   *)
(* calls the Vm's public methods.                                          *)

Idle == ~crashed /\ kstack = <<>>

\* Vm::allocate_call_stack
AllocateCallStack ==
    /\ Idle
    /\ Len(stacks) < MaxStacks
    /\ stacks' = Append(stacks, <<>>)
    /\ UNCHANGED <<loaded, heap, statics, tcs, kstack, ret, crashed, calls, steps, clinitLog, pendOf>>
    /\ gc' = NoGc

HostCall(act) ==
    /\ Idle
    /\ calls < MaxCalls
    /\ calls' = calls + 1
    /\ kstack' = <<act>>
    /\ ret' = RNone
    /\ UNCHANGED <<loaded, heap, statics, stacks, tcs, crashed, steps, clinitLog, pendOf>>
    /\ gc' = NoGc

CallGetOrResolveClass ==
    \E s \in DOMAIN stacks, cls \in ClassNames :
        HostCall(Act("get_or_resolve_class", s, cls, "", <<>>))

\* the embedder looks up the entry point "run"
CallResolveClassMethod ==
    \E s \in DOMAIN stacks, cls \in ClassNames :
        HostCall(Act("resolve_class_method", s, cls, "run", <<>>))

\* invoke takes a ClassAndMethod, which only a loaded class provides; the
\* embedder invokes no static initializer itself
CallInvoke ==
    \E s \in DOMAIN stacks, cls \in ClassPath, m \in MethodNames \ {"<clinit>"} :
        /\ IsLoaded(loaded, cls)
        /\ find_method(cls, m) # {}
        /\ HostCall(Act("invoke", s, cls, m, <<>>))

CallNewObject ==
    \E s \in DOMAIN stacks, cls \in ClassNames :
        HostCall(Act("new_object", s, cls, "", <<>>))

CallNewString ==
    \E s \in DOMAIN stacks, str \in Strings :
        HostCall(Act("new_java_lang_string_object", s, "", "", str))

\* the embedder extracts the string of an object it has a reference to
CallExtractStr ==
    \E a \in DOMAIN heap :
        HostCall([Act("extract_str_from_java_lang_string", 0, "", "", <<>>)
                    EXCEPT !.a = Ref(a)])


\* the stack trace elements the embedder hands in
StackTraceElements ==
    {StackTraceElement(<<65>>, <<65>>, <<>>, <<>>),
     StackTraceElement(<<65>>, <<>>, <<<<65>>>>, <<7>>)}

CallNewClassObject ==
    \E s \in DOMAIN stacks, str \in Strings :
        HostCall(Act("new_java_lang_class_object", s, "", "", str))

CallNewStackTraceElement ==
    \E s \in DOMAIN stacks, el \in StackTraceElements :
        HostCall([Act("new_java_lang_stack_trace_element_object", s, "", "", <<>>)
                    EXCEPT !.el = el])

\* the embedder clones a value: an int, null, or a reference it has
CallCloneArray ==
    \E value \in {IntV(0), Null} \cup {Ref(a) : a \in DOMAIN heap} :
        HostCall([Act("clone_array", 0, "", "", <<>>) EXCEPT !.a = value])

----------------------------------------------------------------------------

Init ==
    /\ loaded = <<>>
    /\ heap = <<>>
    /\ statics = <<>>
    /\ stacks = <<>>
    /\ tcs = <<>>
    /\ kstack = <<>>
    /\ ret = RNone
    /\ crashed = FALSE
    /\ calls = 0
    /\ steps = 0
    /\ clinitLog = <<>>
    /\ pendOf = [c \in AllClassNames |-> <<>>]
    /\ gc = NoGc

Next ==
    \/ AllocateCallStack
    \/ CallGetOrResolveClass
    \/ CallResolveClassMethod
    \/ CallInvoke
    \/ CallNewObject
    \/ CallNewString
    \/ CallNewClassObject
    \/ CallNewStackTraceElement
    \/ CallExtractStr
    \/ CallCloneArray
    \/ ExtractStr
    \/ CloneArray
    \/ GetOrResolveClassStart
    \/ GetOrResolveClassLoop
    \/ InitClassStart
    \/ InitClassWait
    \/ InvokeStart
    \/ ExecReturn
    \/ ExecThrow
    \/ ExecNew
    \/ ExecLdc
    \/ ExecInvoke
    \/ ExecPutStatic
    \/ ExecPop
    \/ ExecResume
    \/ ExecCatch
    \/ NativeReturn
    \/ NativeInvoke
    \/ NewObjectStart
    \/ NewObjectWait
    \/ NewStringStart
    \/ NewStringWait
    \/ NewClassObjectStart
    \/ NewClassObjectWaitObj
    \/ NewClassObjectWaitStr
    \/ NewStackTraceElementStart
    \/ NewStackTraceElementWaitClass
    \/ NewStackTraceElementWaitMethod
    \/ NewStackTraceElementWaitFile
    \/ NewStackTraceElementWaitObj
    \/ ResolveClassMethodStart
    \/ ResolveClassMethodWait

Spec == Init /\ [][Next]_vars

----------------------------------------------------------------------------
(* Properties *)

HasClinit(c) == find_method(c, "<clinit>") # {}

\* the positions of an event of class c in the history of initializers
Events(c, ev) == {n \in DOMAIN clinitLog : clinitLog[n] = [cls |-> c, ev |-> ev]}

Activations(fn) == {k \in DOMAIN kstack : kstack[k].fn = fn}

HasStatic(c) == IsLoaded(loaded, c) /\ ClassId(loaded, c) \in DOMAIN statics

\* C1 (amended): the classes of a pending list are initialized in the order
\* of the list: while get_or_resolve_class works through its list, the classes
\* that have their static instance are those before the current position, and
\* a class whose superclass was not yet loaded at its first resolution, and so
\* was pending in the same list, has its <clinit> invoked only after the
\* superclass's <clinit> has ended
C1_InitOrder ==
    /\ \A k \in Activations("get_or_resolve_class") :
         kstack[k].pc = "loop" =>
           \A j \in DOMAIN kstack[k].pend :
             /\ j < kstack[k].i - 1 => HasStatic(kstack[k].pend[j])
             /\ j >= kstack[k].i => ~HasStatic(kstack[k].pend[j])
    /\ \A c \in ClassPath :
         \A n \in Events(c, "begin") :
           (SuperOf(c) \in Range(pendOf[c]) /\ HasClinit(SuperOf(c))) =>
             \E e \in Events(SuperOf(c), "end") : e < n

\* C1 as stated: whenever the <clinit> of a class is invoked, the <clinit> of
\* its superclass has been invoked and has ended, whether the superclass was
\* pending in the same list or was loaded before
C1_SuperclassFinishedFirst ==
    \A c \in ClassPath :
      \A n \in Events(c, "begin") :
        HasClinit(SuperOf(c)) => \E e \in Events(SuperOf(c), "end") : e < n

\* first use of B with A not loaded: A's <clinit> has ended and B's has begun
C1_Witness ==
    /\ pendOf["B"] = <<"A", "B">>
    /\ Events("A", "end") # {}
    /\ Events("B", "begin") # {}

\* C2: the <clinit> of a class is invoked at most once, whatever calls name
\* the class and from wherever they are made
C2_ClinitAtMostOnce ==
    \A c \in ClassPath : Cardinality(Events(c, "begin")) <= 1

\* A's <clinit> is running and a new A it executed has returned the object:
\* a use of the loaded class from inside its initializer
C2_Witness ==
    /\ Running("invoke", "exec")
    /\ Top.m = "<clinit>"
    /\ Top.cls = "A"
    /\ IsRef(Slot)
    /\ heap[Slot.v].cls = ClassId(loaded, "A")
    /\ Cardinality(Events("A", "begin")) = 1

\* a class counts as initialized when init_class has run for it to the end
Initialized(sts, log, c) ==
    /\ ClassId(loaded, c) \in DOMAIN sts
    /\ HasClinit(c) => \E n \in DOMAIN log : log[n] = [cls |-> c, ev |-> "end"]

\* get_or_resolve_class returns in this step
GorcReturns == Running("get_or_resolve_class", "loop") /\ kstack' = Popped

\* C3: get_or_resolve_class returns Ok only when init_class has succeeded for
\* every pending class; when an initializer fails it returns that failure and
\* the classes after the failed one are left without initialization
C3_PendingInitializedFirst ==
    [][GorcReturns =>
         IF ret'.k = "ok"
         THEN /\ ret'.v = ClassV(ClassId(loaded, Top.cls))
              /\ \A j \in DOMAIN Top.pend : Initialized(statics', clinitLog', Top.pend[j])
         ELSE /\ Failed(ret)
              /\ ret' = ret
              /\ \A j \in DOMAIN Top.pend :
                   j >= Top.i => ClassId(loaded, Top.pend[j]) \notin DOMAIN statics']_vars

\* the first use of B failed in A's <clinit>: the failure is the embedder's
\* result and B has no static instance
C3_Witness ==
    /\ Idle
    /\ ret.k = "thrown"
    /\ pendOf["B"] = <<"A", "B">>
    /\ Events("A", "fail") # {}
    /\ ~HasStatic("B")

\* the invoke activations that hold a frame on call stack s
FrameHolders(s) ==
    {k \in Activations("invoke") : kstack[k].st = s /\ kstack[k].pc # "start"}

\* every executing invoke holds the frame at the depth it pushed it at, and a
\* call stack has no other frames
FramesMatch ==
    /\ \A s \in DOMAIN stacks : Len(stacks[s]) = Cardinality(FrameHolders(s))
    /\ \A s \in DOMAIN stacks : \A k \in FrameHolders(s) :
         /\ kstack[k].depth < Len(stacks[s])
         /\ stacks[s][kstack[k].depth + 1].cls = kstack[k].cls
         /\ stacks[s][kstack[k].depth + 1].m = kstack[k].m
         /\ kstack[k].depth = Cardinality({j \in FrameHolders(s) : j < k})

\* C4: an invoke of a non-native method pushes one frame on its call stack,
\* or returns the failure of the push and leaves the stack as it was; when
\* its execution ends, with a value, a thrown object or an internal error,
\* the stack is back at the depth the invoke found; so the frames of a call
\* stack are at every moment those of its executing invokes
C4_FrameLifecycle ==
    [][/\ FramesMatch'
       /\ (Running("invoke", "start") /\ ~IsNative(Top.cls, Top.m)) =>
            IF Len(stacks[Top.st]) < MaxFrames
            THEN /\ stacks' = [stacks EXCEPT ![Top.st] = Append(@, stacks'[Top.st][Len(@) + 1])]
                 /\ stacks'[Top.st][Len(stacks[Top.st]) + 1].cls = Top.cls
                 /\ stacks'[Top.st][Len(stacks[Top.st]) + 1].m = Top.m
                 /\ Len(kstack') = Len(kstack)
            ELSE /\ stacks' = stacks
                 /\ kstack' = Popped
                 /\ ret'.k = "internal"
       /\ (~crashed /\ kstack # <<>> /\ Top.fn = "invoke" /\ Top.pc # "start"
             /\ kstack' = Popped) =>
            /\ ret'.k \in {"ok", "thrown", "internal"}
            /\ Len(stacks[Top.st]) = Top.depth + 1
            /\ stacks' = [stacks EXCEPT ![Top.st] = SubSeq(@, 1, Top.depth)]]_vars

\* an invoke nested in another ended with a thrown object, and the outer
\* frame is the only one left on the stack
C4_Witness ==
    /\ ~crashed
    /\ kstack # <<>>
    /\ Top.fn = "invoke"
    /\ Top.pc = "wait_ret"
    /\ ret.k = "thrown"
    /\ Len(stacks[Top.st]) = Top.depth + 1

\* the running activation makes a request of new_object_of_class or new_array
\* in this step
AllocRequest ==
    \/ Running("init_class", "start")
    \/ Running("new_object", "wait") /\ ~Failed(ret)
    \/ Running("new_java_lang_string_object", "start")
    \/ Running("clone_array", "start") /\ IsRef(Top.a) /\ heap[Top.a.v].kind = "arr"

\* C5: a request of new_object_of_class or new_array runs a collection exactly
\* when its first attempt does not fit, runs one collection at most, and makes
\* one more attempt after it; a step that makes no such request runs no
\* collection
C5_CollectOnlyOnFailure ==
    [][IF AllocRequest
       THEN /\ gc'.ran = (IF Len(heap) < HeapCapacity THEN 0 ELSE 1)
            /\ gc'.tries = gc'.ran + 1
       ELSE gc'.ran = 0 /\ gc'.tries = 0]_vars

\* a request found the heap full, collected, and its second attempt fitted
C5_Witness ==
    /\ ~crashed
    /\ gc.ran = 1
    /\ gc.tries = 2
    /\ Len(heap) = HeapCapacity

\* C6: an allocation that does not fit after the collection is reported to
\* the embedder as an internal error, and the process does not panic
C6_ExhaustionIsAValue == ~crashed

\* C7: the String that new_java_lang_string_object returns has in slot 0 a
\* live char array holding the code units written into it, whatever
\* collections the allocations of the operation ran
C7_StringKeepsItsArray ==
    [][(Running("new_java_lang_string_object", "wait") /\ ~Failed(ret)) =>
         LET units == encode_utf16(Top.str)
             value == heap'[ret'.v.v].f[1]
         IN /\ IsRef(value)
            /\ value.v \in DOMAIN heap'
            /\ heap'[value.v].kind = "arr"
            /\ heap'[value.v].et = "char"
            /\ heap'[value.v].f = [i \in 1..Len(units) |-> IntV(units[i])]]_vars

\* every static instance and every reference-typed slot of every frame of
\* every allocated call stack
AllRoots ==
    {StaticLoc(c) : c \in DOMAIN statics}
      \cup {loc \in {SlotLoc(s, fr, x) : s \in DOMAIN stacks, fr \in 1..MaxFrames, x \in LocalSlots} :
              /\ loc.j \in DOMAIN stacks[loc.i]
              /\ IsRef(stacks[loc.i][loc.j].slots[loc.l])}

\* C8: a collection is given as roots every static instance of the statics
\* map and every reference-typed slot of every frame of every allocated call
\* stack (the side table holds hashes and trace data, no references)
C8_RootSet ==
    [][gc'.ran > 0 => gc'.roots = AllRoots]_vars

\* a collection ran with a root in a frame of a call stack other than the one
\* of the invocation that was allocating
C8_Witness ==
    /\ ~crashed
    /\ gc.ran = 1
    /\ kstack # <<>>
    /\ \E loc \in gc.roots : loc.k = "slot" /\ loc.i # Top.st

\* value v2 of heap h2 designates the same object as value v1 of heap h1:
\* class id, element type, identity hash and contents agree, followed through
\* the references to depth n; a reference to no allocated address of h1 has
\* nothing to preserve
RECURSIVE SameObject(_, _, _, _, _)
SameObject(h1, v1, h2, v2, n) ==
    IF ~IsRef(v1) THEN v2 = v1
    ELSE IF v1.v \notin DOMAIN h1 THEN TRUE
    ELSE /\ IsRef(v2)
         /\ v2.v \in DOMAIN h2
         /\ h2[v2.v].kind = h1[v1.v].kind
         /\ h2[v2.v].cls = h1[v1.v].cls
         /\ h2[v2.v].et = h1[v1.v].et
         /\ h2[v2.v].hash = h1[v1.v].hash
         /\ DOMAIN h2[v2.v].f = DOMAIN h1[v1.v].f
         /\ n > 0 => \A j \in DOMAIN h1[v1.v].f :
                        SameObject(h1, h1[v1.v].f[j], h2, h2[v2.v].f[j], n - 1)

\* C9: over a request of new_object_of_class or new_array, with or without a
\* collection, every object reachable from a static instance or a frame slot
\* is designated by the rewritten reference with the same class id, contents
\* and identity hash
C9_ReachabilityPreserved ==
    [][AllocRequest =>
         /\ \A c \in DOMAIN statics :
              SameObject(heap, statics[c], heap', statics'[c], HeapCapacity)
         /\ \A s \in DOMAIN stacks : \A fr \in DOMAIN stacks[s] : \A x \in LocalSlots :
              SameObject(heap, stacks[s][fr].slots[x],
                         heap', stacks'[s][fr].slots[x], HeapCapacity)]_vars

\* a collection moved an object that has its identity hash: the hash it took
\* at its first address is kept at the new one
C9_Witness ==
    /\ ~crashed
    /\ gc.ran = 1
    /\ \E a \in DOMAIN heap : heap[a].hash # 0 /\ heap[a].hash # a

\* C10: after a collection every entry of throwable_call_stacks belongs to a
\* throwable that survived it
C10_NoEntryForReclaimed ==
    gc.ran > 0 => \A h \in DOMAIN tcs : \E a \in DOMAIN heap : heap[a].hash = h

\* C11: the statics map gets an entry only from init_class, for a class id
\* that has none, holding a new instance of that class; an entry is never
\* removed and designates the same object from then on (at its new address
\* after a collection); no two class ids share a static instance
C11_StaticInstanceOnce ==
    [][/\ \A c \in DOMAIN statics :
            /\ c \in DOMAIN statics'
            /\ IF gc'.ran = 0 THEN statics'[c] = statics[c]
               ELSE SameObject(heap, statics[c], heap', statics'[c], HeapCapacity)
       /\ \A c \in DOMAIN statics' \ DOMAIN statics :
            /\ Running("init_class", "start")
            /\ c = ClassId(loaded, Top.cls)
            /\ heap'[statics'[c].v] = NewInstance(loaded, Top.cls)
       /\ \A c, d \in DOMAIN statics' :
            /\ heap'[statics'[c].v].kind = "inst"
            /\ heap'[statics'[c].v].cls = c
            /\ c # d => statics'[c] # statics'[d]]_vars

\* two classes have their static instances, and a collection has just run
\* over them
C11_Witness ==
    /\ ~crashed
    /\ gc.ran = 1
    /\ Cardinality(DOMAIN statics) = 2

\* new_java_lang_string_object returns its String in this step
StringReturned == Running("new_java_lang_string_object", "wait") /\ ~Failed(ret)

\* the code units held by the array that value designates in heap h, or
\* <<-1>> when it designates no char array
CharsOf(h, value) ==
    IF IsRef(value) /\ value.v \in DOMAIN h /\ h[value.v].kind = "arr" /\ h[value.v].et = "char"
    THEN [i \in DOMAIN h[value.v].f |-> h[value.v].f[i].v]
    ELSE <<-1>>

\* C12: extract_str_from_java_lang_string applied to the object that
\* new_java_lang_string_object(s) returns gives Ok(s), and the char array in
\* slot 0 holds the UTF-16 code units of s in order
C12_StringRoundTrip ==
    [][StringReturned =>
         /\ extract_str_from_java_lang_string(heap', loaded', ret'.v) = {ROk(StrV(Top.str))}
         /\ CharsOf(heap', heap'[ret'.v.v].f[1]) = encode_utf16(Top.str)]_vars

\* C13: extract_str_from_java_lang_string changes nothing of the VM, and it
\* fails with ValidationException for an object of an unknown class id, for an
\* object of a class other than java/lang/String, and for a String whose slot
\* 0 holds no reference
C13_ExtractFailures ==
    [][Running("extract_str_from_java_lang_string", "start") =>
         /\ UNCHANGED <<loaded, heap, statics, stacks, tcs, crashed>>
         /\ LET object == heap[Top.a.v]
            IN (\/ object.cls \notin DOMAIN loaded
                \/ loaded[object.cls] # StringClass
                \/ object.f[1].t # "ref")
                 => /\ ret'.k = "internal"
                    /\ ret'.e.name = "ValidationException"]_vars

\* the embedder's extraction failed with ValidationException while
\* java/lang/String was not even loaded: the object was of another class
C13_Witness ==
    /\ Idle
    /\ ret = RInternal("ValidationException")
    /\ ~IsLoaded(loaded, StringClass)
    /\ heap # <<>>

\* C14: in the object new_java_lang_string_object returns, slot 0 is the char
\* array of the string's code units and every other slot holds the zero of
\* its kind
C14_StringLayout ==
    [][StringReturned =>
         LET string == heap'[ret'.v.v]
         IN /\ CharsOf(heap', string.f[1]) = encode_utf16(Top.str)
            /\ \A j \in DOMAIN string.f \ {1} : string.f[j].v = 0 /\ string.f[j].t # "ref"]_vars

\* C15: an invoke of a native method pushes no frame and changes nothing of
\* the VM by itself: with a registered callback the activation becomes that
\* callback, whose result is the result of the invoke and whose return pops
\* no frame; with none the invoke returns InternalError(NotImplemented)
C15_NativeDispatch ==
    [][/\ (Running("invoke", "start") /\ IsNative(Top.cls, Top.m)) =>
            /\ UNCHANGED <<loaded, heap, statics, stacks, tcs, crashed>>
            /\ IF Registered(Top.cls, Top.m)
               THEN /\ Len(kstack') = Len(kstack)
                    /\ kstack'[Len(kstack)].fn = "native"
                    /\ kstack'[Len(kstack)].cls = Top.cls
                    /\ kstack'[Len(kstack)].m = Top.m
                    /\ kstack'[Len(kstack)].st = Top.st
               ELSE /\ kstack' = Popped
                    /\ ret' = RInternal("NotImplemented")
       /\ (~crashed /\ kstack # <<>> /\ Top.fn = "native" /\ kstack' = Popped) =>
            /\ stacks' = stacks
            /\ ret'.k \in {"ok", "thrown", "internal"}]_vars

\* the embedder invoked the native method that has no callback: it got
\* NotImplemented, and no call stack has a frame
C15_Witness ==
    /\ Idle
    /\ ret = RInternal("NotImplemented")
    /\ stacks # <<>>
    /\ \A s \in DOMAIN stacks : stacks[s] = <<>>

\* resolve_class_method returns in this step
RcmReturns == Running("resolve_class_method", "wait") /\ kstack' = Popped

\* C16: resolve_class_method returns InternalError(MethodNotFoundException)
\* with the names asked for when the class resolves and has no such method,
\* and get_or_resolve_class returns the class manager's error as an internal
\* error for a class that cannot be loaded, which resolve_class_method passes
\* on; neither is a thrown object
C16_StructuralErrorsInternal ==
    [][/\ (RcmReturns /\ ~Failed(ret) /\ \A x \in MethodsOf(Top.cls) : x.name # Top.m) =>
            /\ ret'.k = "internal"
            /\ ret'.e = VmError("MethodNotFoundException", Top.cls, Top.m)
       /\ (RcmReturns /\ Failed(ret)) => ret' = ret
       /\ (Running("get_or_resolve_class", "start") /\ Top.cls \notin ClassPath) =>
            /\ kstack' = Popped
            /\ ret' = RInternal("ClassNotFound")
            /\ UNCHANGED <<loaded, heap, statics, stacks>>]_vars

\* the embedder asked for the method run of B, which resolves and declares no
\* such method
C16_Witness ==
    /\ Idle
    /\ ret.k = "internal"
    /\ ret.e = VmError("MethodNotFoundException", "B", "run")
    /\ IsLoaded(loaded, "B")

\* every <clinit> that is being invoked finds the static instance of its
\* class registered: a live instance of that class
ClinitFindsStatic ==
    \A k \in Activations("invoke") :
        kstack[k].m = "<clinit>" =>
            LET id == ClassId(loaded, kstack[k].cls)
                static == get_static_instance(statics, id)
            IN /\ IsRef(static)
               /\ static.v \in DOMAIN heap
               /\ heap[static.v].kind = "inst"
               /\ heap[static.v].cls = id

\* C17: init_class registers the static instance in the step that allocates
\* it and only then invokes <clinit>, so the instance is there during the
\* whole initializer; for a class with no <clinit> it registers the instance
\* and returns with no method invoked: no frame is pushed and no initializer
\* begins
C17_StaticBeforeClinit ==
    [][/\ ClinitFindsStatic'
       /\ (Running("init_class", "start") /\ ~crashed') =>
            /\ IsRef(get_static_instance(statics', ClassId(loaded, Top.cls)))
            /\ IF \E x \in MethodsOf(Top.cls) : x.name = "<clinit>"
               THEN /\ Len(kstack') = Len(kstack) + 1
                    /\ kstack'[Len(kstack')].fn = "invoke"
                    /\ kstack'[Len(kstack')].cls = Top.cls
                    /\ kstack'[Len(kstack')].m = "<clinit>"
               ELSE /\ kstack' = Popped
                    /\ ret' = ROk(Void)
                    /\ DOMAIN stacks' = DOMAIN stacks
                    /\ \A s \in DOMAIN stacks : Len(stacks'[s]) = Len(stacks[s])
                    /\ clinitLog' = clinitLog]_vars

\* B's <clinit> is executing, instructions have run, and B's static instance
\* is registered; java/lang/String, which has no <clinit>, has its own
C17_Witness ==
    /\ Running("invoke", "exec")
    /\ Top.m = "<clinit>"
    /\ Top.cls = "B"
    /\ steps > 0
    /\ HasStatic("B")
    /\ HasStatic(StringClass)
    /\ \A n \in DOMAIN clinitLog : clinitLog[n].cls # StringClass

\* C18: clone_array refuses every value that is no reference to an array with
\* ValidationException and changes nothing; for an array it returns a newly
\* allocated array with the source's element type, length and contents, also
\* when the allocation of the copy collects, and without a collection the
\* copy is distinct from the source and the source is unchanged
C18_CloneArray ==
    [][(Running("clone_array", "start") /\ ~crashed') =>
         IF IsRef(Top.a) /\ heap[Top.a.v].kind = "arr"
         THEN /\ ret'.k = "ok"
              /\ IsRef(ret'.v)
              /\ ret'.v.v = Len(heap')
              /\ heap'[ret'.v.v].kind = "arr"
              /\ heap'[ret'.v.v].et = heap[Top.a.v].et
              /\ heap'[ret'.v.v].f = heap[Top.a.v].f
              /\ gc'.ran = 0 => ret'.v # Top.a /\ heap'[Top.a.v] = heap[Top.a.v]
         ELSE /\ ret' = RInternal("ValidationException")
              /\ heap' = heap]_vars

\* C19: every class that get_or_resolve_class returns Ok has its static
\* instance in the statics map and, if it has a <clinit>, that <clinit> has
\* been invoked
C19_HandedOutWithStatic ==
    [][(GorcReturns /\ ret'.k = "ok") =>
         /\ IsRef(get_static_instance(statics', ClassId(loaded, Top.cls)))
         /\ HasClinit(Top.cls) =>
              \E n \in DOMAIN clinitLog' : clinitLog'[n] = [cls |-> Top.cls, ev |-> "begin"]]_vars

\* C20: a throwable only observes its own stack trace: an object with which
\* no trace was ever associated (its identity hash has not been taken) gets
\* None from get_stack_trace_associated_with_throwable, never the trace of
\* another throwable, live or reclaimed
C20_OwnTraceOnly ==
    \A a \in DOMAIN heap :
        heap[a].hash = 0 =>
            get_stack_trace_associated_with_throwable(tcs, heap, Ref(a)) = <<>>

====
